---- MODULE Spec2Model ----
(***************************************************************************)
(* State and selection core of the spreadsheet widget: the unistore store  *)
(* of SpreadsheetWrapper (src/src/ActiveCell.js, second half), the key     *)
(* handlers feeding it, the clipboard handlers and the immutable Matrix    *)
(* helpers (src/src/matrix.js).                                            *)
(*                                                                         *)
(* Representation.  A JavaScript array is a sequence read with index + 1.  *)
(* A cell is a record [value |-> v]; the JavaScript value undefined is the *)
(* record Undefined and null is the record Null, so that every comparison  *)
(* is between records.  An absent row (matrix[row] === undefined) and an   *)
(* empty row ([]) are both the empty sequence: every function of matrix.js *)
(* reads a row through `matrix[row] && ...` or `matrix[row] ? ... : []`,   *)
(* which gives the same cells for both.  The fields cut and hasPasted are  *)
(* the strings "undefined", "false" and "true", because initialState sets  *)
(* neither of them.                                                        *)
(***************************************************************************)
EXTENDS Integers, Sequences, FiniteSets, TLC

\* Bounds of the model.
MaxRows == 2
MaxColumns == 2
MaxEvents == 4

\* state: the store's state; pre, ev: the state before the last event and
\* that event; err: the last event's handler threw; atCopy: the data at the
\* last copy or cut event; n: the number of events so far; pure: the call of a
\* pure function (its name, its input, its result) in the specification of
\* the pure functions.
\* mounted: the widget is mounted; permissions: navigator.permissions exists;
\* pending: the texts of the copies whose permission query is not answered;
\* asked: for each of them, the store's state at its copy event;
\* clipboard: the text on the system clipboard; wrote: what the last step did
\* to the clipboard ("none", "written", or "failed" for a write that failed).
\* cellBeforeUpdate: the state of the ActiveCell component; commits: the
\* commits it emitted in the last step; snapshot: the active cell when the
\* mode last went from view to edit.  thisPrevState: this.prevState of the
\* wrapper; calls: the callbacks of the host called in the last step;
\* replaced: the observed fields whose object the last patch replaced.
\* transitions: the states the store took in the last step, one for each call
\* of setState, each passed to the subscriber while it is subscribed.
\* budget: the number of events a behaviour may hold.
VARIABLES state, pre, ev, err, atCopy, n, pure,
          mounted, permissions, pending, asked, clipboard, wrote,
          cellBeforeUpdate, commits, snapshot,
          thisPrevState, calls, replaced, transitions, budget

widget == <<state, pre, ev, err, atCopy, n,
            mounted, permissions, pending, asked, clipboard, wrote,
            cellBeforeUpdate, commits, snapshot,
            thisPrevState, calls, replaced, transitions, budget>>

vars == <<widget, pure>>

Undefined == [undefined |-> TRUE]
Null == [null |-> TRUE]

Max(a, b) == IF a >= b THEN a ELSE b
Min(a, b) == IF a <= b THEN a ELSE b

Point(row, column) == [row |-> row, column |-> column]

\* Every point a handler of the model can name: one step around the grid.
Points == {Point(r, c) : r \in 0..(MaxRows - 1), c \in 0..(MaxColumns - 1)}

----------------------------------------------------------------------------
\* matrix.js

\* matrix[row], with [] standing for an absent row.
RowOf(row, matrix) ==
  IF row >= 0 /\ row < Len(matrix) THEN matrix[row + 1] ELSE << >>

get(row, column, matrix) ==
  LET columns == RowOf(row, matrix) IN
  IF column >= 0 /\ column < Len(columns) THEN columns[column + 1] ELSE Undefined

\* set, building the next row from scratch instead of from a copy.
set_FreshRow(row, column, value, matrix) ==
  LET nextRow == [i \in 1..(column + 1) |->
                    IF i = column + 1 THEN value ELSE Undefined]
  IN [i \in 1..Max(Len(matrix), row + 1) |->
        IF i = row + 1 THEN nextRow
        ELSE IF i <= Len(matrix) THEN matrix[i] ELSE << >>]

set(row, column, value, matrix) ==
  LET old == RowOf(row, matrix)
      nextRow == [i \in 1..Max(Len(old), column + 1) |->
                    IF i = column + 1 THEN value
                    ELSE IF i <= Len(old) THEN old[i] ELSE Undefined]
  IN [i \in 1..Max(Len(matrix), row + 1) |->
        IF i = row + 1 THEN nextRow
        ELSE IF i <= Len(matrix) THEN matrix[i] ELSE << >>]

\* Boolean(matrix[row] && matrix[row][column]): a cell object is truthy.
has(row, column, matrix) == get(row, column, matrix) # Undefined

\* matrix.js filter (lines 45-49): Array.prototype.filter over each row, then
\* over the rows, the empty ones being dropped.
filter(func(_), matrix) ==
  LET NonEmpty(row) == Len(row) > 0
      rows == [i \in 1..Len(matrix) |-> SelectSeq(matrix[i], func)]
  IN SelectSeq(rows, NonEmpty)

\* matrix.js map (lines 52-54): func applied to every element of every row.
map(func(_), matrix) ==
  [i \in 1..Len(matrix) |-> [j \in 1..Len(matrix[i]) |-> func(matrix[i][j])]]

RECURSIVE ArrayJoin(_, _)
\* Array.prototype.join: an undefined element gives the empty string.
ArrayJoin(array, separator) ==
  IF Len(array) = 0 THEN ""
  ELSE LET head == IF array[1] = Undefined THEN "" ELSE array[1].text IN
       IF Len(array) = 1 THEN head
       ELSE head \o separator \o ArrayJoin(Tail(array), separator)

\* The default separators of join.
DefaultHorizontalSeparator == ", "
DefaultVerticalSeparator == "\n"

Text(string) == [text |-> string]

join(matrix, horizontalSeparator, verticalSeparator) ==
  ArrayJoin([i \in 1..Len(matrix) |->
               Text(ArrayJoin(matrix[i], horizontalSeparator))],
            verticalSeparator)

\* Boolean(element) for an element that is a cell or undefined.
Boolean(element) == element # Undefined

----------------------------------------------------------------------------
\* point-set.js and util.js (not part of the sources at hand)

from(points) == points

PointSetHas(set_, point) == point \in set_

add(set_, point) == set_ \cup {point}

getEdgeValue(set_, field, delta) ==
  IF set_ = {} THEN 0
  ELSE LET values == {p[field] : p \in set_} IN
       IF delta < 0 THEN CHOOSE v \in values : \A w \in values : v <= w
       ELSE CHOOSE v \in values : \A w \in values : v >= w

Moved(point, field, delta) ==
  IF field = "row" THEN Point(point.row + delta, point.column)
  ELSE Point(point.row, point.column + delta)

extendEdge(set_, field, delta) ==
  LET edgeValue == getEdgeValue(set_, field, delta) IN
  set_ \cup {Moved(p, field, delta) : p \in {q \in set_ : q[field] = edgeValue}}

shrinkEdge(set_, field, delta) ==
  LET edgeValue == getEdgeValue(set_, field, delta) IN
  {p \in set_ : p[field] # edgeValue}

\* The first point of a set in row-major order: the order of a fold.
First(set_) ==
  CHOOSE p \in set_ : \A q \in set_ :
    p.row < q.row \/ (p.row = q.row /\ p.column <= q.column)

updateData(data, row, column, cell) == set(row, column, cell, data)

RECURSIVE ToMatrixReduce(_, _, _)
ToMatrixReduce(points, acc, data) ==
  IF points = {} THEN acc
  ELSE LET point == First(points) IN
       ToMatrixReduce(points \ {point},
                      set(point.row, point.column,
                          get(point.row, point.column, data), acc),
                      data)

\* The sparse matrix holding, at each point of the set, the cell of data.
toMatrix(set_, data) == ToMatrixReduce(set_, << >>, data)

cellFromValue(value) == [value |-> value]

----------------------------------------------------------------------------
\* The store (unistore): setState merges a patch into the state, shallowly.

Fields == {"data", "active", "selected", "mode", "copied", "cut", "hasPasted"}

\* A handler that throws leaves the store as it was.
Throw == [throw |-> TRUE]

setState(st, update) ==
  [f \in Fields |-> IF f \in DOMAIN update THEN update[f] ELSE st[f]]

\* A bound action of connect(): a null result is not passed to setState.
bound(st, result) ==
  IF result = Null \/ result = Throw THEN st ELSE setState(st, result)

\* The matrices the host passes as the data prop: every full matrix within
\* the bounds, the cell at (row, column) holding a value of its own.
ValueNames == <<"A", "B", "C", "D", "E", "F", "G", "H", "I", "J", "K", "L">>

HostCell(row, column) == [value |-> ValueNames[row * MaxColumns + column + 1]]

HostMatrix(rows, columns) ==
  [r \in 1..rows |-> [c \in 1..columns |-> HostCell(r - 1, c - 1)]]

HostData ==
  {HostMatrix(rows, columns) : rows \in 1..MaxRows, columns \in 1..MaxColumns}

initialState(data) ==
  [data |-> data, active |-> Null, selected |-> from({}), mode |-> "view",
   copied |-> from({}), cut |-> "undefined", hasPasted |-> "undefined"]

----------------------------------------------------------------------------
\* Key handlers

\* go, forgetting to select the target.
go_KeepsSelection(rowDelta, columnDelta, st) ==
  IF st.active = Null THEN Null
  ELSE LET nextActive == Point(st.active.row + rowDelta,
                               st.active.column + columnDelta) IN
       IF ~has(nextActive.row, nextActive.column, st.data)
       THEN [mode |-> "view"]
       ELSE [active |-> nextActive, mode |-> "view"]

\* go, returning null for a target that does not exist.
go_NoModeReset(rowDelta, columnDelta, st) ==
  IF st.active = Null THEN Null
  ELSE LET nextActive == Point(st.active.row + rowDelta,
                               st.active.column + columnDelta) IN
       IF ~has(nextActive.row, nextActive.column, st.data)
       THEN Null
       ELSE [active |-> nextActive, selected |-> from({nextActive}),
             mode |-> "view"]

\* go, selecting the active point when the target does not exist.
go_ResetsSelection(rowDelta, columnDelta, st) ==
  IF st.active = Null THEN Null
  ELSE LET nextActive == Point(st.active.row + rowDelta,
                               st.active.column + columnDelta) IN
       IF ~has(nextActive.row, nextActive.column, st.data)
       THEN [selected |-> from({st.active}), mode |-> "view"]
       ELSE [active |-> nextActive, selected |-> from({nextActive}),
             mode |-> "view"]

go(rowDelta, columnDelta, st) ==
  IF st.active = Null THEN Null
  ELSE LET nextActive == Point(st.active.row + rowDelta,
                               st.active.column + columnDelta) IN
       IF ~has(nextActive.row, nextActive.column, st.data)
       THEN [mode |-> "view"]
       ELSE [active |-> nextActive, selected |-> from({nextActive}),
             mode |-> "view"]

RECURSIVE ClearSelected(_, _)
\* PointSet.reduce of the Backspace handler: updateData with an empty-value
\* cell at each point of the selection.
ClearSelected(points, acc) ==
  IF points = {} THEN acc
  ELSE LET point == First(points) IN
       ClearSelected(points \ {point},
                     updateData(acc, point.row, point.column, cellFromValue("")))

\* Backspace, clearing the active cell only.
Backspace_ActiveOnly(st) ==
  IF st.active = Null THEN Null
  ELSE [data |-> ClearSelected({st.active}, st.data)]

Backspace(st) ==
  IF st.active = Null THEN Null
  ELSE [data |-> ClearSelected(st.selected, st.data)]

KeyDownKeys == {"ArrowUp", "ArrowDown", "ArrowLeft", "ArrowRight", "Tab",
                "Enter", "Backspace"}

keyDownHandlers(key, st) ==
  CASE key = "ArrowUp" -> go(-1, 0, st)
    [] key = "ArrowDown" -> go(1, 0, st)
    [] key = "ArrowLeft" -> go(0, -1, st)
    [] key = "ArrowRight" -> go(0, 1, st)
    [] key = "Tab" -> go(0, 1, st)
    [] key = "Enter" -> [mode |-> "edit"]
    [] key = "Backspace" -> Backspace(st)

EditKeys == {"Escape", "Tab", "Enter"}

\* editKeyDownHandlers, Enter bound to the Enter of view mode.
editKeyDownHandlers_EnterEdits(key, st) ==
  CASE key = "Escape" -> [mode |-> "view"]
    [] key = "Tab" -> keyDownHandlers("Tab", st)
    [] key = "Enter" -> keyDownHandlers("Enter", st)

\* editKeyDownHandlers, Escape also dropping the selection.
editKeyDownHandlers_EscapeSelects(key, st) ==
  CASE key = "Escape" -> [mode |-> "view", selected |-> from({})]
    [] key = "Tab" -> keyDownHandlers("Tab", st)
    [] key = "Enter" -> keyDownHandlers("ArrowDown", st)

editKeyDownHandlers(key, st) ==
  CASE key = "Escape" -> [mode |-> "view"]
    [] key = "Tab" -> keyDownHandlers("Tab", st)
    [] key = "Enter" -> keyDownHandlers("ArrowDown", st)

\* state.active[field] of a null active point is a TypeError.
\* modifyEdge, shrinking the edge on the side of the move.
modifyEdge_SameEdge(field, delta, st) ==
  IF st.active = Null THEN Throw
  ELSE LET edgeOffsets == PointSetHas(st.selected, Moved(st.active, field, delta * (-1)))
           nextSelected == IF edgeOffsets
                           THEN shrinkEdge(st.selected, field, delta)
                           ELSE extendEdge(st.selected, field, delta)
       IN [selected |-> {point \in nextSelected :
                           has(point.row, point.column, st.data)}]

modifyEdge(field, delta, st) ==
  IF st.active = Null THEN Throw
  ELSE LET edgeOffsets == PointSetHas(st.selected, Moved(st.active, field, delta * (-1)))
           nextSelected == IF edgeOffsets
                           THEN shrinkEdge(st.selected, field, delta * (-1))
                           ELSE extendEdge(st.selected, field, delta)
       IN [selected |-> {point \in nextSelected :
                           has(point.row, point.column, st.data)}]

ShiftKeys == {"ArrowUp", "ArrowDown", "ArrowLeft", "ArrowRight"}

shiftKeyDownHandlers(key, st) ==
  CASE key = "ArrowUp" -> modifyEdge("row", -1, st)
    [] key = "ArrowDown" -> modifyEdge("row", 1, st)
    [] key = "ArrowLeft" -> modifyEdge("column", -1, st)
    [] key = "ArrowRight" -> modifyEdge("column", 1, st)

handleKeyPress(st) ==
  IF st.mode = "view" /\ st.active # Null THEN [mode |-> "edit"] ELSE Null

\* handleKeyDown, testing the Shift key before the mode.
handleKeyDown_ShiftFirst(st, key, shiftKey) ==
  IF shiftKey
  THEN (IF key \in ShiftKeys THEN shiftKeyDownHandlers(key, st) ELSE Null)
  ELSE IF st.mode = "edit"
  THEN (IF key \in EditKeys THEN editKeyDownHandlers(key, st) ELSE Null)
  ELSE (IF key \in KeyDownKeys THEN keyDownHandlers(key, st) ELSE Null)

handleKeyDown(st, key, shiftKey) ==
  IF st.mode = "edit"
  THEN (IF key \in EditKeys THEN editKeyDownHandlers(key, st) ELSE Null)
  ELSE IF shiftKey
  THEN (IF key \in ShiftKeys THEN shiftKeyDownHandlers(key, st) ELSE Null)
  ELSE (IF key \in KeyDownKeys THEN keyDownHandlers(key, st) ELSE Null)

----------------------------------------------------------------------------
\* Clipboard handlers of SpreadsheetWrapper

\* getValue of an element of the matrix of selected cells, as a string of
\* the joined text.
getValue(element) == Text(element.value)

\* The text that the closure copy of handleCopy writes.
CopyText(st) ==
  LET matrix == toMatrix(st.selected, st.data)
      filteredMatrix == filter(Boolean, matrix)
      valueMatrix == map(getValue, filteredMatrix)
  IN join(valueMatrix, DefaultHorizontalSeparator, DefaultVerticalSeparator)

handleCopy(st) ==
  setState(st, [copied |-> st.selected, cut |-> "false", hasPasted |-> "false"])

\* handleCut, without the second setState.
handleCut_CutNotSet(st) == handleCopy(st)

handleCut(st) == setState(handleCopy(st), [cut |-> "true"])

\* The callback of the fold, without the test that the target exists.
PasteStep_NoBoundsTest(acc, point, minRow, minColumn, prevState) ==
  LET nextRow == point.row - minRow + prevState.active.row
      nextColumn == point.column - minColumn + prevState.active.column
  IN [data |-> set(nextRow, nextColumn,
                   get(point.row, point.column, prevState.data), acc.data),
      selected |-> add(acc.selected, Point(nextRow, nextColumn))]

\* The callback of the fold of handlePaste: acc is {data, selected}.
PasteStep(acc, point, minRow, minColumn, prevState) ==
  LET nextRow == point.row - minRow + prevState.active.row
      nextColumn == point.column - minColumn + prevState.active.column
      nextPointExists == has(nextRow, nextColumn, prevState.data)
  IN IF ~nextPointExists THEN acc
     ELSE LET nextData == set(nextRow, nextColumn,
                              get(point.row, point.column, prevState.data),
                              acc.data)
              nextSelected == add(acc.selected, Point(nextRow, nextColumn))
          IN [data |-> nextData, selected |-> nextSelected]

RECURSIVE PasteReduce(_, _, _, _, _)
\* PointSet.reduce over the copied points.
PasteReduce(points, acc, minRow, minColumn, prevState) ==
  IF points = {} THEN acc
  ELSE LET point == First(points) IN
       PasteReduce(points \ {point},
                   PasteStep(acc, point, minRow, minColumn, prevState),
                   minRow, minColumn, prevState)

\* prevState.active.row of a null active point is a TypeError, raised by the
\* first step of the fold.
handlePaste(prevState) ==
  IF prevState.active = Null /\ prevState.copied # {} THEN Throw
  ELSE LET minRow == getEdgeValue(prevState.copied, "row", -1)
           minColumn == getEdgeValue(prevState.copied, "column", -1)
           result == PasteReduce(prevState.copied,
                                 [data |-> prevState.data, selected |-> from({})],
                                 minRow, minColumn, prevState)
       IN [data |-> result.data, selected |-> result.selected, mode |-> "view",
           cut |-> "false", hasPasted |-> "true"]

----------------------------------------------------------------------------
\* The ActiveCell component

\* mapStateToProps of ActiveCell: without an active point the props are
\* {hidden: true}, cell and mode being undefined.  The dimensions of a point
\* that was once displayed stay cached, so an active point is never hidden.
mapStateToProps(st) ==
  IF st.active = Null
  THEN [cell |-> Undefined, mode |-> "undefined", hidden |-> TRUE]
  ELSE [cell |-> get(st.active.row, st.active.column, st.data),
        mode |-> st.mode,
        hidden |-> FALSE]

\* componentDidUpdate, committing the cell of the new props.
ActiveCellDidUpdate_CurrentCell(prevProps, props, before) ==
  IF prevProps.mode = "view" /\ props.mode = "edit"
  THEN [cellBeforeUpdate |-> prevProps.cell, commits |-> << >>]
  ELSE IF /\ prevProps.mode = "edit"
          /\ prevProps.mode # props.mode
          /\ prevProps.cell # Undefined
          /\ prevProps.cell # before
  THEN [cellBeforeUpdate |-> before,
        commits |-> <<[prevCell |-> before, nextCell |-> props.cell]>>]
  ELSE [cellBeforeUpdate |-> before, commits |-> << >>]

\* ActiveCell.componentDidUpdate: the next cellBeforeUpdate and the commits
\* emitted.  The outer test (cell || cell === undefined) holds for a cell
\* that is an object or undefined.
ActiveCellDidUpdate(prevProps, props, before) ==
  IF prevProps.mode = "view" /\ props.mode = "edit"
  THEN [cellBeforeUpdate |-> prevProps.cell, commits |-> << >>]
  ELSE IF /\ prevProps.mode = "edit"
          /\ prevProps.mode # props.mode
          /\ prevProps.cell # Undefined
          /\ prevProps.cell # before
  THEN [cellBeforeUpdate |-> before,
        commits |-> <<[prevCell |-> before, nextCell |-> prevProps.cell]>>]
  ELSE [cellBeforeUpdate |-> before, commits |-> << >>]

\* The values a DataEditor passes to onChange; the cell is a new object,
\* told from every other cell by the step that made it.
EditValues == {"X"}

EditedCell(value, stamp) == [value |-> value, stamp |-> stamp]

----------------------------------------------------------------------------
\* Pointer actions (actions.js, not part of the sources at hand)

setCellData(st, active, cell) ==
  [data |-> set(active.row, active.column, cell, st.data)]

inclusiveRect(a, b) ==
  {Point(r, c) : r \in Min(a.row, b.row)..Max(a.row, b.row),
                 c \in Min(a.column, b.column)..Max(a.column, b.column)}

activate(st, point) ==
  [active |-> point, selected |-> from({point}), mode |-> "view"]

select(st, point) ==
  IF st.active # Null /\ st.active # point
  THEN [selected |-> from(inclusiveRect(point, st.active)), mode |-> "view"]
  ELSE Null

----------------------------------------------------------------------------
\* The subscriber of the store (SpreadsheetWrapper.componentDidMount)

\* The patch hands back the data object the state already held: the reduce
\* of Backspace over no point, and of handlePaste when no target exists,
\* return the accumulator they were given.
KeepsData(e, st, result) ==
  \/ e.type = "keydown" /\ e.key = "Backspace" /\ st.selected = from({})
  \/ e.type = "paste" /\ result.selected = from({})

\* The fields for which a patch brings an object other than the one held:
\* every handler builds the objects it returns, but for KeepsData.  mode is
\* a string, compared by value.  The patches of handleCopy and handleCut name
\* copied, cut and hasPasted only.
Replaced(e, st, result) ==
  IF result = Null \/ result = Throw \/ e.type \in {"copy", "cut"}
  THEN {}
  ELSE {f \in DOMAIN result \cap {"data", "selected", "active"} :
          ~(f = "data" /\ KeepsData(e, st, result))}

\* The states of the store after each call of setState in the handler of e:
\* handleCut calls handleCopy, which sets the state, and sets it again.
SetStates(e, st, result) ==
  IF result = Null \/ result = Throw THEN << >>
  ELSE IF e.type = "cut" THEN <<handleCopy(st), result>>
  ELSE <<bound(st, result)>>

\* PointSet.toArray: the points of the set, in no order that matters here.
toArray(points) == points

\* The arguments each callback of the host was called with, in order.
NoCalls ==
  [onChange |-> << >>, onModeChange |-> << >>,
   onSelect |-> << >>, onActivate |-> << >>]

\* The subscriber, comparing the fields by value.
subscriber_ByValue(prev, st, fresh) ==
  [onChange |-> IF st.data # prev.data THEN <<st.data>> ELSE << >>,
   onModeChange |-> IF st.mode # prev.mode THEN <<st.mode>> ELSE << >>,
   onSelect |-> IF st.selected # prev.selected
                THEN <<toArray(st.selected)>> ELSE << >>,
   onActivate |-> IF st.active # prev.active /\ st.active # Null
                  THEN <<st.active>> ELSE << >>]

\* The subscriber: st is the state passed by the store, prev is
\* this.prevState (thisPrevState), and fresh holds the fields of st whose object is not the
\* one of prev although it may equal it.
subscriber(prev, st, fresh) ==
  [onChange |-> IF "data" \in fresh \/ st.data # prev.data
                THEN <<st.data>> ELSE << >>,
   onModeChange |-> IF st.mode # prev.mode THEN <<st.mode>> ELSE << >>,
   onSelect |-> IF "selected" \in fresh \/ st.selected # prev.selected
                THEN <<toArray(st.selected)>> ELSE << >>,
   onActivate |-> IF /\ "active" \in fresh \/ st.active # prev.active
                     /\ st.active # Null
                  THEN <<st.active>> ELSE << >>]

----------------------------------------------------------------------------
\* The state machine: one action per input event.

Keys == KeyDownKeys \cup EditKeys \cup {"a"}

Event(type, key, shiftKey) == [key |-> key, shiftKey |-> shiftKey, type |-> type]

\* The store after the event, the state before it and the event itself.
Handled(e, result) ==
  /\ n < budget
  /\ budget' = budget
  /\ n' = n + 1
  /\ pre' = state
  /\ ev' = e
  /\ state' = bound(state, result)
  /\ err' = (result = Throw)
  /\ atCopy' = IF e.type \in {"copy", "cut"} THEN state.data ELSE atCopy
  /\ pure' = pure
  /\ permissions' = permissions
  /\ LET update == ActiveCellDidUpdate(mapStateToProps(state),
                                       mapStateToProps(bound(state, result)),
                                       cellBeforeUpdate)
     IN IF mounted
        THEN cellBeforeUpdate' = update.cellBeforeUpdate /\ commits' = update.commits
        ELSE cellBeforeUpdate' = cellBeforeUpdate /\ commits' = << >>
  /\ snapshot' = IF /\ state.mode = "view"
                    /\ bound(state, result).mode = "edit"
                    /\ state.active # Null
                 THEN get(state.active.row, state.active.column, state.data)
                 ELSE snapshot
  /\ replaced' = Replaced(e, state, result)
  /\ transitions' = SetStates(e, state, result)
  /\ IF mounted /\ result # Null /\ result # Throw
     THEN /\ calls' = subscriber(thisPrevState, bound(state, result),
                                 Replaced(e, state, result))
          /\ thisPrevState' = bound(state, result)
     ELSE /\ calls' = NoCalls
          /\ thisPrevState' = thisPrevState

\* An event of the mounted widget that leaves the clipboard alone.
Step(e, result) ==
  /\ mounted
  /\ Handled(e, result)
  /\ UNCHANGED <<mounted, pending, asked, clipboard>>
  /\ wrote' = "none"

\* clipboard.writeText(text): the platform writes the text or fails.
WriteText(text, ok) ==
  /\ clipboard' = IF ok THEN text ELSE clipboard
  /\ wrote' = IF ok THEN "written" ELSE "failed"

\* The clipboard part of handleCopy: the write waits for the answer of the
\* permission query when navigator.permissions exists.
CopyToClipboard(text, ok) ==
  IF permissions
  THEN /\ pending' = Append(pending, text)
       /\ asked' = Append(asked, state)
       /\ clipboard' = clipboard
       /\ wrote' = "none"
  ELSE /\ pending' = pending
       /\ asked' = asked
       /\ WriteText(text, ok)

\* The outcomes of a write that matter: one when the write is put off.
WriteOutcomes == IF permissions THEN {TRUE} ELSE BOOLEAN

\* No call of a pure function.
NoCall == [fn |-> "none"]

\* The widget as constructed and mounted with the data prop.
Mounted(data) ==
  /\ state = initialState(data)
  /\ pre = state
  /\ ev = Event("mount", "", FALSE)
  /\ err = FALSE
  /\ atCopy = << >>
  /\ n = 0
  /\ mounted = TRUE
  /\ pending = << >>
  /\ asked = << >>
  /\ clipboard = ""
  /\ wrote = "none"
  /\ cellBeforeUpdate = Null
  /\ commits = << >>
  /\ snapshot = Null
  /\ thisPrevState = state
  /\ calls = NoCalls
  /\ replaced = {}
  /\ transitions = << >>

Init ==
  /\ \E data \in HostData : Mounted(data)
  /\ permissions \in BOOLEAN
  /\ pure = NoCall
  /\ budget = MaxEvents

KeyDown ==
  \E key \in Keys, shiftKey \in BOOLEAN :
    Step(Event("keydown", key, shiftKey), handleKeyDown(state, key, shiftKey))

KeyPress == Step(Event("keypress", "", FALSE), handleKeyPress(state))

\* The document listeners are never removed: they run after unmount too.
Copy ==
  \E ok \in WriteOutcomes :
    /\ Handled(Event("copy", "", FALSE), handleCopy(state))
    /\ CopyToClipboard(CopyText(state), ok)
    /\ UNCHANGED mounted

Cut ==
  \E ok \in WriteOutcomes :
    /\ Handled(Event("cut", "", FALSE), handleCut(state))
    /\ CopyToClipboard(CopyText(state), ok)
    /\ UNCHANGED mounted

Paste ==
  /\ Handled(Event("paste", "", FALSE), handlePaste(state))
  /\ UNCHANGED <<mounted, pending, asked, clipboard>>
  /\ wrote' = "none"

\* The answers of navigator.permissions.query: a status, or a rejection.
Answers == {"granted", "denied", "rejected"}

\* A sequence without its i-th element.
Without(seq, i) ==
  [j \in 1..(Len(seq) - 1) |-> IF j < i THEN seq[j] ELSE seq[j + 1]]

\* The settling of one of the pending permission queries, with the state at
\* its copy event and the number of the queries that were pending.
PermissionEvent(answer, at, queries) ==
  [key |-> answer, shiftKey |-> FALSE, type |-> "permission", at |-> at,
   queries |-> queries]

\* The promise of a permission query settles: the then-callback calls copy()
\* for every status, since status.state is a non-empty string; copy() writes
\* the valueMatrix that handleCopy computed, not the store's state.
PermissionAnswer_ReadsCurrentState ==
  \E i \in 1..Len(pending), answer \in Answers, ok \in BOOLEAN :
    /\ answer = "rejected" => ok
    /\ Handled(PermissionEvent(answer, asked[i], Len(pending)), Null)
    /\ pending' = Without(pending, i)
    /\ asked' = Without(asked, i)
    /\ IF answer = "rejected"
       THEN clipboard' = clipboard /\ wrote' = "none"
       ELSE WriteText(CopyText(state), ok)
    /\ UNCHANGED mounted

PermissionAnswer ==
  \E i \in 1..Len(pending), answer \in Answers, ok \in BOOLEAN :
    /\ answer = "rejected" => ok
    /\ Handled(PermissionEvent(answer, asked[i], Len(pending)), Null)
    /\ pending' = Without(pending, i)
    /\ asked' = Without(asked, i)
    /\ IF answer = "rejected"
       THEN clipboard' = clipboard /\ wrote' = "none"
       ELSE WriteText(pending[i], ok)
    /\ UNCHANGED mounted

componentWillUnmount ==
  /\ mounted
  /\ Handled(Event("unmount", "", FALSE), Null)
  /\ mounted' = FALSE
  /\ UNCHANGED <<pending, asked, clipboard>>
  /\ wrote' = "none"

\* The event of a new data prop, with the matrix passed.
DataEvent(data) ==
  [data |-> data, key |-> "", shiftKey |-> FALSE, type |-> "data"]

\* componentDidUpdate, also selecting nothing.
componentDidUpdate_DropsSelection ==
  \E data \in HostData :
    Step(DataEvent(data), [data |-> data, selected |-> from({})])

\* SpreadsheetWrapper.componentDidUpdate: the host passed another data prop.
componentDidUpdate ==
  \E data \in HostData : Step(DataEvent(data), [data |-> data])

\* The DataEditor, rendered in edit mode for an active point, calls onChange.
EditChange ==
  \E value \in EditValues :
    /\ state.mode = "edit"
    /\ state.active # Null
    /\ Step(Event("change", "", FALSE),
            setCellData(state, state.active, EditedCell(value, n + 1)))

Activate ==
  \E point \in Points :
    /\ has(point.row, point.column, state.data)
    /\ Step(Event("activate", "", FALSE), activate(state, point))

Select ==
  \E point \in Points :
    /\ has(point.row, point.column, state.data)
    /\ Step(Event("select", "", FALSE), select(state, point))

Next ==
  \/ KeyDown
  \/ KeyPress
  \/ Copy
  \/ Cut
  \/ Paste
  \/ PermissionAnswer
  \/ componentWillUnmount
  \/ componentDidUpdate
  \/ EditChange
  \/ Activate
  \/ Select

Spec == Init /\ [][Next]_vars

\* The widget under clicks, copies, pastes and new data props only, with one
\* event more.
ClipboardInit ==
  /\ \E data \in HostData : Mounted(data)
  /\ permissions = FALSE
  /\ pure = NoCall
  /\ budget = MaxEvents + 1

ClipboardNext ==
  \/ Activate
  \/ Copy
  \/ Paste
  \/ componentDidUpdate

ClipboardSpec == ClipboardInit /\ [][ClipboardNext]_vars

----------------------------------------------------------------------------
\* Ranges of points

\* range of util.js (not part of the sources at hand; its tests are), with
\* the default step 1: from start towards end, end not included.
utilRange(end, start) ==
  IF end < start THEN [i \in 1..(start - end) |-> start - (i - 1)]
  ELSE [i \in 1..(end - start) |-> start + (i - 1)]

\* flatMap(rowsRange, row => columnsRange.map(column => ({row, column})))
flatMapPoints(rowsRange, columnsRange) ==
  IF Len(columnsRange) = 0 THEN << >>
  ELSE [k \in 1..(Len(rowsRange) * Len(columnsRange)) |->
          Point(rowsRange[((k - 1) \div Len(columnsRange)) + 1],
                columnsRange[((k - 1) % Len(columnsRange)) + 1])]

\* Math.sign
sign(x) == IF x > 0 THEN 1 ELSE IF x < 0 THEN -1 ELSE 0

range(endPoint, startPoint) ==
  LET columnsRange ==
        IF startPoint.column # endPoint.column
        THEN utilRange(endPoint.column, startPoint.column)
        ELSE IF startPoint.row # endPoint.row THEN <<startPoint.column>>
        ELSE << >>
      rowsRange ==
        IF startPoint.row # endPoint.row
        THEN utilRange(endPoint.row, startPoint.row)
        ELSE IF startPoint.column # endPoint.column THEN <<startPoint.row>>
        ELSE << >>
  IN flatMapPoints(rowsRange, columnsRange)

inclusiveRange(endPoint, startPoint) ==
  range(Point(endPoint.row + sign(endPoint.row - startPoint.row),
              endPoint.column + sign(endPoint.column - startPoint.column)),
        startPoint)

----------------------------------------------------------------------------
\* Formula resolution (util.js, not part of the sources at hand).  A raw
\* value is a string Text(s), a number, a boolean or null; a computed value
\* comes with the arguments of the calls of the parser's parse it took.

FORMULA_VALUE_PREFIX == "="

isFormulaCell(cell) ==
  /\ DOMAIN cell.value = {"text"}
  /\ Len(cell.value.text) >= Len(FORMULA_VALUE_PREFIX)
  /\ SubSeq(cell.value.text, 1, Len(FORMULA_VALUE_PREFIX)) = FORMULA_VALUE_PREFIX

extractFormula(value) ==
  Text(SubSeq(value.text, Len(FORMULA_VALUE_PREFIX) + 1, Len(value.text)))

\* getFormulaComputedValue, preferring the result to the error.
getFormulaComputedValue_ResultFirst(cell, parsed) ==
  [value |-> IF parsed.result # Null THEN parsed.result ELSE parsed.error,
   parse |-> <<extractFormula(cell.value)>>]

\* parsed is what formulaParser.parse returns for the formula.
getFormulaComputedValue(cell, parsed) ==
  [value |-> IF parsed.error # Null THEN parsed.error ELSE parsed.result,
   parse |-> <<extractFormula(cell.value)>>]

getComputedValue(cell, parsed) ==
  IF cell = Undefined THEN [value |-> Null, parse |-> << >>]
  ELSE IF isFormulaCell(cell) THEN getFormulaComputedValue(cell, parsed)
  ELSE [value |-> cell.value, parse |-> << >>]

----------------------------------------------------------------------------
\* The pure functions, applied to inputs drawn from bounded sets.

SeqsUpTo(S, k) == UNION {[1..m -> S] : m \in 0..k}

\* Every matrix within the bounds: rows of any length, absent cells included.
Cells == {Undefined, [value |-> "A"], [value |-> "B"]}

Matrices == SeqsUpTo(SeqsUpTo(Cells, MaxColumns), MaxRows)

Call(fn, in, out) == [fn |-> fn, in |-> in, out |-> out]

\* Raw values of cells, and what a parser may return.
RawValues == {Text("A"), Text(""), Text("="), Text("=TRUE()"), Text("A=B"),
              [number |-> 1], [boolean |-> FALSE], Null}

ParseReturns == {[result |-> [boolean |-> TRUE], error |-> Null],
                 [result |-> Null, error |-> Text("#REF!")],
                 [result |-> Text("A"), error |-> Text("#REF!")],
                 [result |-> Null, error |-> Null]}

\* The corners of the ranges: the points of the grid and one step beyond.
Corners == {Point(r, c) : r \in 0..MaxRows, c \in 0..MaxColumns}

PureInit ==
  /\ Mounted(HostMatrix(1, 1))
  /\ permissions = FALSE
  /\ budget = MaxEvents
  /\ \/ \E matrix \in Matrices, row \in 0..MaxRows, column \in 0..MaxColumns,
           value \in {Undefined, [value |-> "Z"]} :
           pure = Call("input", [row |-> row, column |-> column, matrix |-> matrix,
                                 value |-> value, kind |-> "set"], Null)
     \/ \E points \in (SUBSET Points) \ {{}}, field \in {"row", "column"},
           delta \in {-1, 1} :
           pure = Call("input", [points |-> from(points), field |-> field,
                                 delta |-> delta, kind |-> "edge"], Null)
     \/ \E endPoint \in Corners, startPoint \in Corners, inclusive \in BOOLEAN :
           pure = Call("input", [endPoint |-> endPoint, startPoint |-> startPoint,
                                 kind |-> "range", inclusive |-> inclusive],
                       Null)
     \/ \E cell \in {Undefined} \cup {[value |-> v] : v \in RawValues},
           parsed \in ParseReturns :
           pure = Call("input", [cell |-> cell, parsed |-> parsed,
                                 kind |-> "computed"], Null)

ApplySet ==
  /\ pure.fn = "input" /\ pure.in.kind = "set"
  /\ pure' = Call("set", pure.in,
                  set(pure.in.row, pure.in.column, pure.in.value, pure.in.matrix))
  /\ UNCHANGED widget

\* extendEdge, then shrinkEdge of the same edge.
ApplyEdge ==
  /\ pure.fn = "input" /\ pure.in.kind = "edge"
  /\ pure' = Call("edge", pure.in,
                  shrinkEdge(extendEdge(pure.in.points, pure.in.field, pure.in.delta),
                             pure.in.field, pure.in.delta))
  /\ UNCHANGED widget

ApplyGetComputedValue ==
  /\ pure.fn = "input" /\ pure.in.kind = "computed"
  /\ pure' = Call("getComputedValue", pure.in,
                  getComputedValue(pure.in.cell, pure.in.parsed))
  /\ UNCHANGED widget

ApplyRange ==
  /\ pure.fn = "input" /\ pure.in.kind = "range"
  /\ pure' = Call("range", pure.in,
                  IF pure.in.inclusive
                  THEN inclusiveRange(pure.in.endPoint, pure.in.startPoint)
                  ELSE range(pure.in.endPoint, pure.in.startPoint))
  /\ UNCHANGED widget

PureNext ==
  \/ ApplySet
  \/ ApplyRange
  \/ ApplyGetComputedValue
  \/ ApplyEdge

PureSpec == PureInit /\ [][PureNext]_vars

TypeOK ==
  /\ state.mode \in {"view", "edit"}
  /\ state.cut \in {"undefined", "false", "true"}
  /\ state.hasPasted \in {"undefined", "false", "true"}
  /\ err \in BOOLEAN
  /\ n \in 0..budget

----------------------------------------------------------------------------
\* Vocabulary of the properties

Exists(point, data) == has(point.row, point.column, data)

CellAt(point, data) == get(point.row, point.column, data)

\* The grid and one row and one column beyond it.
Around == {Point(r, c) : r \in 0..MaxRows, c \in 0..MaxColumns}

KeyEvent(key, shiftKey) ==
  ev.type = "keydown" /\ ev.key = key /\ ev.shiftKey = shiftKey

Arrows == {"ArrowUp", "ArrowDown", "ArrowLeft", "ArrowRight"}

RowStep(key) == CASE key = "ArrowUp" -> -1 [] key = "ArrowDown" -> 1
                  [] key = "Enter" -> 1 [] OTHER -> 0

ColumnStep(key) == CASE key = "ArrowLeft" -> -1 [] key = "ArrowRight" -> 1
                     [] key = "Tab" -> 1 [] OTHER -> 0

\* The point one step from the active point of the state before the event.
Target(key) == Point(pre.active.row + RowStep(key), pre.active.column + ColumnStep(key))

\* The last event was a move key: an unshifted arrow or Tab in view mode, Tab
\* or Enter in edit mode, with an active point.
ViewMove(key) ==
  /\ key \in Arrows \cup {"Tab"}
  /\ KeyEvent(key, FALSE)
  /\ pre.mode = "view"
  /\ pre.active # Null

EditMove(key) ==
  /\ key \in {"Tab", "Enter"}
  /\ ev.type = "keydown" /\ ev.key = key
  /\ pre.mode = "edit"
  /\ pre.active # Null

SameExcept(fields) == \A f \in Fields \ fields : state[f] = pre[f]

\* C1: in view mode with an active point, an unshifted arrow key or Tab whose
\* target exists in data makes the target the active point and the only
\* selected point, keeps view mode and leaves data unchanged.
C1_MoveToTarget ==
  \A key \in Arrows \cup {"Tab"} :
    (ViewMove(key) /\ Exists(Target(key), pre.data)) =>
      /\ state.active = Target(key)
      /\ state.selected = {Target(key)}
      /\ state.mode = "view"
      /\ state.data = pre.data

C1_Witness ==
  /\ ViewMove("ArrowRight")
  /\ pre.active = Point(0, 0)
  /\ Cardinality(pre.selected) > 1
  /\ state.active = Point(0, 1)
  /\ state.selected = {Point(0, 1)}

\* C2: soft clamp: a move key (arrow or Tab in view mode, Tab or Enter in edit
\* mode) whose target is outside the data leaves active and selected as they
\* were, raises no error and ends in view mode.
C2_SoftClamp ==
  \A key \in Arrows \cup {"Tab", "Enter"} :
    ((ViewMove(key) \/ EditMove(key)) /\ ~Exists(Target(key), pre.data)) =>
      /\ state.active = pre.active
      /\ state.selected = pre.selected
      /\ ~err
      /\ state.mode = "view"

C2_Witness ==
  /\ EditMove("Tab")
  /\ ~Exists(Target("Tab"), pre.data)
  /\ state.mode = "view"
  /\ state.active = pre.active

\* C3 as stated: in view mode an arrow key whose target is out of bounds keeps
\* the active point and resets the selection to the single active point.
C3_ResetsSelection ==
  \A key \in Arrows :
    (ViewMove(key) /\ ~Exists(Target(key), pre.data)) =>
      /\ state.active = pre.active
      /\ state.selected = {state.active}

\* C3 as amended: in view mode an arrow key whose target is out of bounds
\* changes no field of the store: the active point stays and the selection is
\* the one that existed before, a multi-cell selection included.
C3_KeepsSelection ==
  \A key \in Arrows :
    (ViewMove(key) /\ ~Exists(Target(key), pre.data)) =>
      /\ state = pre
      /\ (state.selected = {state.active} <=> pre.selected = {pre.active})

C3_Witness ==
  /\ ViewMove("ArrowUp")
  /\ ~Exists(Target("ArrowUp"), pre.data)
  /\ Cardinality(pre.selected) > 1
  /\ state.selected = pre.selected

\* C4: in every reachable state the active point, when there is one, and every
\* selected point exist in the current data.
C4_SelectionWithinBounds ==
  /\ state.active # Null => Exists(state.active, state.data)
  /\ \A point \in state.selected : Exists(point, state.data)

\* C5: with no active point every key down and key press event leaves the
\* store unchanged, mode included, and raises no error.
C5_NoActiveNoOp ==
  (ev.type \in {"keydown", "keypress"} /\ pre.active = Null) =>
    (state = pre /\ ~err)

\* C6: Backspace in view mode with an active point puts an empty-value cell at
\* every selected point and changes nothing else: the cells at the other
\* points and every other field are as before.
C6_BackspaceClears ==
  (KeyEvent("Backspace", FALSE) /\ pre.mode = "view" /\ pre.active # Null) =>
    /\ \A point \in pre.selected : CellAt(point, state.data) = [value |-> ""]
    /\ \A point \in Around \ pre.selected :
         CellAt(point, state.data) = CellAt(point, pre.data)
    /\ SameExcept({"data"})
    /\ ~err

C6_Witness ==
  /\ KeyEvent("Backspace", FALSE) /\ pre.mode = "view" /\ pre.active # Null
  /\ Cardinality(pre.selected) = 2
  /\ \E point \in Around \ pre.selected : Exists(point, pre.data)
  /\ \A point \in pre.selected : CellAt(point, pre.data) # [value |-> ""]
  /\ \A point \in pre.selected : CellAt(point, state.data) = [value |-> ""]

\* C7: in edit mode with an active point Tab moves it one column right and
\* Enter one row down (active = target, selected = {target}) when the target
\* exists, and the mode is view afterwards in both cases.
C7_EditMove ==
  \A key \in {"Tab", "Enter"} :
    EditMove(key) =>
      /\ state.mode = "view"
      /\ Exists(Target(key), pre.data) =>
           (state.active = Target(key) /\ state.selected = {Target(key)})

C7_Witness ==
  /\ EditMove("Enter")
  /\ pre.active = Point(0, 0)
  /\ state.active = Point(1, 0)
  /\ state.selected = {Point(1, 0)}
  /\ state.mode = "view"

\* C8: Escape in edit mode sets the mode to view and changes no other field.
C8_EscapeFrame ==
  (ev.type = "keydown" /\ ev.key = "Escape" /\ pre.mode = "edit") =>
    /\ state.mode = "view"
    /\ SameExcept({"mode"})
    /\ ~err

C8_Witness ==
  /\ ev.type = "keydown" /\ ev.key = "Escape" /\ pre.mode = "edit"
  /\ state.mode = "view"
  /\ state.active # Null
  /\ state.copied # {}

\* The target of a copied point in a paste: point - minCorner(copied) + active.
MinOf(values) == CHOOSE v \in values : \A w \in values : v <= w

PasteTarget(point) ==
  Point(point.row - MinOf({q.row : q \in pre.copied}) + pre.active.row,
        point.column - MinOf({q.column : q \in pre.copied}) + pre.active.column)

\* C9: a paste makes no point exist that did not exist before; a copied point
\* whose target is outside the data is skipped without error and the other
\* targets are written.
C9_PasteNoGrowth ==
  ev.type = "paste" =>
    /\ \A point \in Around : ~Exists(point, pre.data) => ~Exists(point, state.data)
    /\ Len(state.data) = Len(pre.data)
    /\ pre.active # Null =>
         /\ ~err
         /\ \A point \in pre.copied :
              IF Exists(PasteTarget(point), pre.data)
              THEN CellAt(PasteTarget(point), state.data) = CellAt(point, pre.data)
              ELSE CellAt(PasteTarget(point), state.data) = Undefined

C9_Witness ==
  /\ ev.type = "paste" /\ pre.active # Null /\ ~err
  /\ \E point \in pre.copied : ~Exists(PasteTarget(point), pre.data)
  /\ \E point \in pre.copied :
       /\ Exists(PasteTarget(point), pre.data)
       /\ CellAt(PasteTarget(point), state.data) # CellAt(PasteTarget(point), pre.data)

\* C10: a paste writes at every target that exists the value the source cell
\* had when it was copied; afterwards selected is the set of targets written,
\* hasPasted is true, cut is false, the mode is view and active is unchanged.
C10_PasteWritesCopiedValues ==
  (ev.type = "paste" /\ pre.active # Null) =>
    LET written == {PasteTarget(point) : point \in
                      {q \in pre.copied : Exists(PasteTarget(q), pre.data)}} IN
    /\ \A point \in pre.copied :
         Exists(PasteTarget(point), pre.data) =>
           CellAt(PasteTarget(point), state.data) = CellAt(point, atCopy)
    /\ state.selected = written
    /\ state.hasPasted = "true"
    /\ state.cut = "false"
    /\ state.mode = "view"
    /\ state.active = pre.active

\* C18: for every matrix, row >= 0, column >= 0 and value, set gives a matrix
\* (also for a row or a column that does not exist yet) in which get reads the
\* value at (row, column) and what it read before at every other point.
C18_GetSet ==
  pure.fn = "set" =>
    /\ Len(pure.out) = Max(Len(pure.in.matrix), pure.in.row + 1)
    /\ get(pure.in.row, pure.in.column, pure.out) = pure.in.value
    /\ \A r \in 0..(MaxRows + 1), c \in 0..(MaxColumns + 1) :
         (r # pure.in.row \/ c # pure.in.column) =>
           get(r, c, pure.out) = get(r, c, pure.in.matrix)

C18_Witness ==
  /\ pure.fn = "set"
  /\ pure.in.row > Len(pure.in.matrix)
  /\ pure.in.value # Undefined
  /\ get(pure.in.row, pure.in.column, pure.out) = pure.in.value
  /\ \E r \in 0..MaxRows, c \in 0..MaxColumns : has(r, c, pure.in.matrix)

RECURSIVE Joined(_, _)
\* The strings of a sequence with the separator between them.
Joined(strings, separator) ==
  IF Len(strings) = 0 THEN ""
  ELSE IF Len(strings) = 1 THEN strings[1]
  ELSE strings[1] \o separator \o Joined(Tail(strings), separator)

MaxOf(values) == CHOOSE v \in values : \A w \in values : v >= w

\* The selected sub-matrix as text: the rows and the columns that the
\* selection spans, a point with no selected cell giving the empty string.
SelectionText(selected, data) ==
  IF selected = {} THEN ""
  ELSE LET rows == {p.row : p \in selected}
           columns == {p.column : p \in selected}
           ValueAt(r, c) == IF Point(r, c) \in selected /\ has(r, c, data)
                            THEN get(r, c, data).value ELSE ""
           Line(r) == Joined([j \in 1..(MaxOf(columns) - MinOf(columns) + 1) |->
                                ValueAt(r, MinOf(columns) + j - 1)], "\t")
       IN Joined([i \in 1..(MaxOf(rows) - MinOf(rows) + 1) |->
                    Line(MinOf(rows) + i - 1)], "\n")

\* C11: the text a copy writes to the clipboard is the selected sub-matrix,
\* the cells of a row joined by a tab and the rows by a newline, a missing
\* cell giving an empty string in its column.
C11_ClipboardText ==
  (ev.type \in {"copy", "cut"} /\ wrote = "written") =>
    clipboard = SelectionText(pre.selected, pre.data)

\* C12: a copy sets copied to the selection and cut to false, a cut sets
\* copied to the selection and cut to true; neither changes data, active,
\* selected or mode.
C12_CopyCutFrame ==
  ev.type \in {"copy", "cut"} =>
    /\ state.copied = pre.selected
    /\ state.cut = (IF ev.type = "cut" THEN "true" ELSE "false")
    /\ state.data = pre.data
    /\ state.active = pre.active
    /\ state.selected = pre.selected
    /\ state.mode = pre.mode

C12_Witness ==
  /\ ev.type = "cut"
  /\ Cardinality(pre.selected) = 2
  /\ pre.copied # pre.selected
  /\ pre.cut = "false"
  /\ state.copied = pre.selected
  /\ state.cut = "true"

\* C14: after the unmount no copy, cut or paste event of the document changes
\* the store of the widget or makes it write to the clipboard.
C14_ListenersReleased ==
  (~mounted /\ ev.type \in {"copy", "cut", "paste"}) =>
    (state = pre /\ wrote = "none" /\ pending = << >>)

\* C15: when the access to the clipboard fails (the write fails, or the
\* permission query answers denied) a copy or cut writes nothing and leaves
\* the store as it was.
C15_FailureIsNoOp ==
  /\ (ev.type \in {"copy", "cut"} /\ wrote = "failed") => state = pre
  /\ (ev.type = "permission" /\ ev.key = "denied") => wrote = "none"

\* C16: when the host replaces the data prop, data becomes the new matrix and
\* every other field of the store is the one before.
C16_DataReplaced ==
  ev.type = "data" =>
    /\ state.data = ev.data
    /\ SameExcept({"data"})
    /\ ~err

C16_Witness ==
  /\ ev.type = "data"
  /\ state.data # pre.data
  /\ state.mode = "edit"
  /\ Cardinality(state.selected) > 1
  /\ state.active # Null
  /\ \E point \in state.selected : ~Exists(point, state.data)

\* An edit session with an active point closed in the last step.
SessionClosed ==
  /\ mounted
  /\ pre.mode = "edit"
  /\ state.mode = "view"
  /\ pre.active # Null

C13_WitnessUnchanged ==
  /\ SessionClosed
  /\ Exists(pre.active, pre.data)
  /\ CellAt(pre.active, pre.data) = snapshot
  /\ commits = << >>

\* The object of field f is not the one of the state before the last step.
IdentityChanged(f) == f \in replaced \/ state[f] # pre[f]

\* C17: while mounted, the state the subscriber last observed is the state
\* of the store, and the last step called each callback at most once, and
\* once exactly when its field changed identity (onActivate: and active is
\* not null), with the value of the field in the state after the step.
C17_CallbacksOnIdentityChange ==
  mounted =>
    /\ thisPrevState = state
    /\ ev.type \in {"copy", "cut"} => calls = NoCalls
    /\ calls.onChange =
         IF IdentityChanged("data") THEN <<state.data>> ELSE << >>
    /\ calls.onModeChange =
         IF state.mode # pre.mode THEN <<state.mode>> ELSE << >>
    /\ calls.onSelect =
         IF IdentityChanged("selected") THEN <<state.selected>> ELSE << >>
    /\ calls.onActivate =
         IF IdentityChanged("active") /\ state.active # Null
         THEN <<state.active>> ELSE << >>

\* Backspace over cells already empty: an equal matrix, yet another object.
C17_Witness ==
  /\ mounted
  /\ KeyEvent("Backspace", FALSE)
  /\ state.data = pre.data
  /\ calls.onChange = <<state.data>>
  /\ calls.onSelect = << >>

\* One step calling three callbacks with the values of the new state.
C17_WitnessMove ==
  /\ mounted
  /\ pre.mode = "edit"
  /\ calls.onModeChange = <<"view">>
  /\ calls.onActivate = <<state.active>>
  /\ calls.onSelect = <<{state.active}>>
  /\ calls.onChange = << >>

\* The Shift+Arrow of the opposite direction.
Opposite(key) ==
  CASE key = "ArrowUp" -> "ArrowDown"
    [] key = "ArrowDown" -> "ArrowUp"
    [] key = "ArrowLeft" -> "ArrowRight"
    [] key = "ArrowRight" -> "ArrowLeft"

\* The last event was a Shift+Arrow in view mode that extended a non-empty
\* selection, every point of it having a cell one step further.
ExtendedWithinBounds ==
  /\ ev.type = "keydown" /\ ev.key \in Arrows /\ ev.shiftKey
  /\ pre.mode = "view"
  /\ ~err
  /\ pre.selected # {}
  /\ pre.selected \subseteq state.selected
  /\ state.selected # pre.selected
  /\ \A p \in pre.selected :
       Exists(Point(p.row + RowStep(ev.key), p.column + ColumnStep(ev.key)),
              pre.data)

\* The store after the Shift+Arrow of the opposite direction.
AfterOpposite == bound(state, handleKeyDown(state, Opposite(ev.key), TRUE))

\* C19 (event level): in view mode, after a Shift+Arrow that extended the
\* selection without hitting a bound, the Shift+Arrow of the opposite
\* direction gives back the selection there was before, and changes nothing
\* else.
C19_ShiftArrowRoundTrip ==
  ExtendedWithinBounds =>
    /\ AfterOpposite.selected = pre.selected
    /\ \A f \in Fields \ {"selected"} : AfterOpposite[f] = state[f]

C19_Witness ==
  /\ ExtendedWithinBounds
  /\ Cardinality(pre.selected) = 2
  /\ Cardinality(state.selected) = 4
  /\ AfterOpposite.selected = pre.selected

\* C19 (PointSet level): shrinkEdge undoes extendEdge of the same edge, for
\* every non-empty set of points and each axis.
C19_RoundTrip ==
  pure.fn = "edge" => pure.out = pure.in.points

C19_RoundTripWitness ==
  /\ pure.fn = "edge"
  /\ pure.in.delta = 1
  /\ Cardinality(pure.in.points) = 3
  /\ pure.out = pure.in.points

\* The raw value is a string that starts with the formula prefix "=".
HasPrefix(value) ==
  /\ "text" \in DOMAIN value
  /\ \E rest \in {"", "TRUE()"} : value.text = "=" \o rest

\* C20: getComputedValue gives null for an undefined cell and the raw value
\* for a cell that is no formula, without a call of parse; for a formula
\* cell parse is called once, with the value less the prefix, and the value
\* is the parser's error when that is not null, and else its result.
C20_ComputedValue ==
  pure.fn = "getComputedValue" =>
    LET cell == pure.in.cell
        parsed == pure.in.parsed
    IN IF cell = Undefined
       THEN pure.out = [value |-> Null, parse |-> << >>]
       ELSE IF ~HasPrefix(cell.value)
       THEN pure.out = [value |-> cell.value, parse |-> << >>]
       ELSE /\ Len(pure.out.parse) = 1
            /\ Text("=" \o pure.out.parse[1].text) = cell.value
            /\ pure.out.value =
                 IF parsed.error # Null THEN parsed.error ELSE parsed.result

\* A formula whose parser gives both a result and an error: the error.
C20_Witness ==
  /\ pure.fn = "getComputedValue"
  /\ pure.in.cell = [value |-> Text("=TRUE()")]
  /\ pure.in.parsed.result # Null
  /\ pure.out = [value |-> Text("#REF!"), parse |-> <<Text("TRUE()")>>]

\* C21: the handler of one event sets the state of the store at most once,
\* so the subscriber is notified at most once; during a Cut no state of the
\* store has copied updated and cut still false.
C21_OneTransitionPerEvent ==
  /\ Len(transitions) <= 1
  /\ ev.type = "cut" =>
       \A i \in 1..Len(transitions) :
         transitions[i].copied = pre.selected => transitions[i].cut = "true"

\* The key of the last keydown has no handler in the table of its case:
\* edit mode, else Shift held, else plain.
NoHandler ==
  /\ ev.type = "keydown"
  /\ IF pre.mode = "edit" THEN ev.key \notin {"Escape", "Tab", "Enter"}
     ELSE IF ev.shiftKey THEN ev.key \notin Arrows
     ELSE ev.key \notin Arrows \cup {"Tab", "Enter", "Backspace"}

\* C22: a key with no handler in the table chosen by mode, then Shift, is a
\* no-op: the state of the store is not set and nothing is thrown.
C22_UnhandledKeyNoOp ==
  NoHandler => (state = pre /\ transitions = << >> /\ ~err)

\* Shift+ArrowRight in edit mode, with a selection it would extend in view
\* mode.
C22_Witness ==
  /\ NoHandler
  /\ pre.mode = "edit"
  /\ KeyEvent("ArrowRight", TRUE)
  /\ pre.active # Null
  /\ Exists(Point(pre.active.row, pre.active.column + 1), pre.data)
  /\ state = pre

\* Shift+Backspace in view mode over a selection Backspace would clear.
C22_WitnessShift ==
  /\ NoHandler
  /\ pre.mode = "view"
  /\ KeyEvent("Backspace", TRUE)
  /\ pre.selected # {}
  /\ state = pre

\* A key of no table in view mode.
C22_WitnessPlain ==
  /\ NoHandler
  /\ pre.mode = "view"
  /\ KeyEvent("Escape", FALSE)
  /\ pre.active # Null

\* The axis of an arrow key.
Axis(key) == IF key \in {"ArrowUp", "ArrowDown"} THEN "row" ELSE "column"

\* The step of an arrow key along its axis.
Delta(key) == RowStep(key) + ColumnStep(key)

\* The point one step along the axis from a point.
Along(point, axis, step) ==
  IF axis = "row" THEN Point(point.row + step, point.column)
  ELSE Point(point.row, point.column + step)

\* The value of the edge of a non-empty selection on the side of a step.
EdgeOf(points, axis, step) ==
  IF step > 0 THEN MaxOf({p[axis] : p \in points})
  ELSE MinOf({p[axis] : p \in points})

\* The last event was a Shift+Arrow in view mode with an active point.
ShiftArrow ==
  /\ ev.type = "keydown" /\ ev.key \in Arrows /\ ev.shiftKey
  /\ pre.mode = "view"
  /\ pre.active # Null

\* The selection shrunk by its edge behind the arrow, or extended by the
\* points one step beyond its edge ahead, and restricted to the cells of data.
EdgeResult(shrink) ==
  LET axis == Axis(ev.key)
      step == Delta(ev.key)
      next == IF pre.selected = {} THEN {}
              ELSE IF shrink
              THEN {p \in pre.selected : p[axis] # EdgeOf(pre.selected, axis, -step)}
              ELSE pre.selected \cup
                   {Along(p, axis, step) :
                      p \in {q \in pre.selected :
                               q[axis] = EdgeOf(pre.selected, axis, step)}}
  IN {p \in next : Exists(p, pre.data)}

\* C23 (as stated): the selection is shrunk when the point one step back from
\* its moving edge, the edge ahead in the direction of the arrow, is in the
\* selection, and extended otherwise.
C23_BackFromEdge ==
  (ShiftArrow /\ pre.selected # {}) =>
    LET axis == Axis(ev.key)
        step == Delta(ev.key)
        ahead == IF axis = "row"
                 THEN Point(EdgeOf(pre.selected, axis, step), pre.active.column)
                 ELSE Point(pre.active.row, EdgeOf(pre.selected, axis, step))
    IN state.selected = EdgeResult(Along(ahead, axis, -step) \in pre.selected)

\* C23 (amended): on Shift+Arrow in view mode the selection is shrunk by the
\* edge behind the arrow when the point one step back from the ACTIVE point
\* is in the selection, and extended by one unit in the direction of the
\* arrow otherwise; the result is restricted to the points that exist in
\* data, and no other field changes.
C23_BackFromActive ==
  ShiftArrow =>
    /\ state.selected =
         EdgeResult(Along(pre.active, Axis(ev.key), -Delta(ev.key)) \in pre.selected)
    /\ SameExcept({"selected"})
    /\ ~err

\* A shrink: the point behind the active point was selected.
C23_Witness ==
  /\ ShiftArrow
  /\ Along(pre.active, Axis(ev.key), -Delta(ev.key)) \in pre.selected
  /\ Cardinality(pre.selected) = 4
  /\ Cardinality(state.selected) = 2
  /\ pre.active \in state.selected

\* An extension of which the points beyond the data are dropped.
C23_WitnessDropped ==
  /\ ShiftArrow
  /\ Cardinality(pre.selected) = 2
  /\ Along(pre.active, Axis(ev.key), -Delta(ev.key)) \notin pre.selected
  /\ state.selected = pre.selected
  /\ \E p \in pre.selected : ~Exists(Along(p, Axis(ev.key), Delta(ev.key)), pre.data)

\* The integers from a to b, both included, in the direction from a to b.
FromTo(a, b) ==
  IF a <= b THEN [i \in 1..(b - a + 1) |-> a + (i - 1)]
  ELSE [i \in 1..(a - b + 1) |-> a - (i - 1)]

\* The points of the rectangle of the corners start and end, each once, in
\* row-major order from start.
Rectangle(endPoint, startPoint) ==
  LET rows == FromTo(startPoint.row, endPoint.row)
      columns == FromTo(startPoint.column, endPoint.column)
  IN [k \in 1..(Len(rows) * Len(columns)) |->
        Point(rows[((k - 1) \div Len(columns)) + 1],
              columns[((k - 1) % Len(columns)) + 1])]

\* Rectangle without the row and the column of end that differ from start's.
OpenRectangle(endPoint, startPoint) ==
  LET Kept(p) ==
        /\ endPoint.row # startPoint.row => p.row # endPoint.row
        /\ endPoint.column # startPoint.column => p.column # endPoint.column
  IN SelectSeq(Rectangle(endPoint, startPoint), Kept)

\* C24: inclusiveRange(end, start) is the rectangle of the corners start and
\* end, both included, each point once, in row-major order from start, also
\* for end = start; range(end, start) is that enumeration without the row and
\* the column of end when they differ from start's.
C24_RangeEnumerates ==
  pure.fn = "range" =>
    pure.out = IF pure.in.inclusive
               THEN Rectangle(pure.in.endPoint, pure.in.startPoint)
               ELSE OpenRectangle(pure.in.endPoint, pure.in.startPoint)

\* The same for two corners that differ.
C24_DistinctCorners ==
  (pure.fn = "range" /\ pure.in.endPoint # pure.in.startPoint) =>
    pure.out = IF pure.in.inclusive
               THEN Rectangle(pure.in.endPoint, pure.in.startPoint)
               ELSE OpenRectangle(pure.in.endPoint, pure.in.startPoint)

\* A range against both axes: end above and left of start.
C24_WitnessBackwards ==
  /\ pure.fn = "range"
  /\ pure.in.inclusive
  /\ pure.in.endPoint = Point(0, 0)
  /\ pure.in.startPoint = Point(1, 1)
  /\ pure.out = <<Point(1, 1), Point(1, 0), Point(0, 1), Point(0, 0)>>

\* The targets a paste writes: those of the copied points that exist in data.
Written ==
  {PasteTarget(q) : q \in {r \in pre.copied : Exists(PasteTarget(r), pre.data)}}

\* C25: a paste is a simultaneous assignment over the data before it: every
\* written target holds the cell the data held at its source point, also
\* where sources and targets overlap; every other point keeps its cell; and
\* no point that had a cell is left without one.
C25_SimultaneousAssignment ==
  (ev.type = "paste" /\ pre.active # Null) =>
    /\ \A q \in pre.copied :
         Exists(PasteTarget(q), pre.data) =>
           CellAt(PasteTarget(q), state.data) = CellAt(q, pre.data)
    /\ \A p \in Around \ Written : CellAt(p, state.data) = CellAt(p, pre.data)
    /\ \A p \in Around : Exists(p, pre.data) => Exists(p, state.data)

\* The same but for the last part: cells are read from the data before the
\* paste and the points that are no target keep theirs.
C25_ReadsDataBefore ==
  (ev.type = "paste" /\ pre.active # Null) =>
    /\ \A q \in pre.copied :
         Exists(PasteTarget(q), pre.data) =>
           CellAt(PasteTarget(q), state.data) = CellAt(q, pre.data)
    /\ \A p \in Around \ Written : CellAt(p, state.data) = CellAt(p, pre.data)

\* A paste whose targets overlap its sources.
C25_WitnessOverlap ==
  /\ ev.type = "paste" /\ pre.active # Null
  /\ \E q \in pre.copied :
       /\ PasteTarget(q) \in Written \cap pre.copied
       /\ CellAt(PasteTarget(q), pre.data) # CellAt(q, pre.data)
       /\ CellAt(PasteTarget(q), state.data) = CellAt(q, pre.data)

\* The events that may arrive between a copy event and the answer to its
\* permission query.
Interleaved == {"keydown", "keypress", "paste", "data"}

\* Every pending query holds the text of the selection and data of its copy
\* event, whatever arrived since.
PendingKeepsCopyText ==
  /\ Len(pending) = Len(asked)
  /\ \A i \in 1..Len(pending) : pending[i] = CopyText(asked[i])

\* What the handler of an interleaved event returns for the state before it.
SynchronousResult ==
  CASE ev.type = "keydown" -> handleKeyDown(pre, ev.key, ev.shiftKey)
    [] ev.type = "keypress" -> handleKeyPress(pre)
    [] ev.type = "paste" -> handlePaste(pre)
    [] ev.type = "data" -> [data |-> ev.data]

\* An event that arrives while a query is pending is handled in its own step:
\* the store holds the result of its handler and the query is still pending.
NotBlocked ==
  (pending # << >> /\ ev.type \in Interleaved) =>
    /\ state = bound(pre, SynchronousResult)
    /\ err = (SynchronousResult = Throw)
    /\ wrote = "none"

\* A completion callback: one query leaves the pending ones, the store is
\* left alone, and the one write, when it is done, puts the text of the copy
\* event on the clipboard.
Completion ==
  ev.type = "permission" =>
    /\ state = pre
    /\ transitions = << >>
    /\ calls = NoCalls
    /\ Len(pending) = ev.queries - 1
    /\ wrote = "written" => clipboard = CopyText(ev.at)

\* C26: for every interleaving of key, paste and data events between a copy
\* event and the completion of its permission query, the text written is the
\* text of the selection and data at the copy event, the completion callback
\* writes at most once and leaves the store's state alone, and events that
\* arrive while the query is pending are handled without waiting for it.
C26_CopyWithPermissionQuery ==
  /\ PendingKeepsCopyText
  /\ NotBlocked
  /\ Completion

\* A completion callback wrote the text of its copy event after another
\* event had changed the selection, so that the text differs from the text
\* of the store's state.
C26_Witness ==
  /\ ev.type = "permission"
  /\ wrote = "written"
  /\ clipboard = CopyText(ev.at)
  /\ clipboard # CopyText(state)
  /\ state = pre

\* An event was handled and changed the state while a query was pending.
C26_WitnessInterleaved ==
  /\ ev.type \in Interleaved
  /\ pending # << >>
  /\ state # pre


====
